---- MODULE Spec2Model ----
(***************************************************************************)
(* A model of scale_calc: the interval-string / keyboard representations   *)
(* of a scale (scales.py), the note table (notes.py), the circle-of-fifths *)
(* transforms (transforms.py) and the spelling / interval / triad          *)
(* classifiers (analysis.py, chords.py).                                   *)
(*                                                                         *)
(* Python values are represented as follows.                               *)
(*   str    a sequence of one-character strings ("C#" is <<"C", "#">>);    *)
(*          None, where a str is expected, is the empty sequence (both     *)
(*          are falsy in Python, and no code path stores "").              *)
(*   tuple  a sequence; Python index i is TLA+ index i + 1.                *)
(*   a call's outcome is a record [err, val]: err is "none" or the kind    *)
(*   of the exception raised, val the returned value.                      *)
(***************************************************************************)
EXTENDS Integers, Sequences, FiniteSets, TLC

VARIABLES pc, scale, op, args, ret, err

vars == <<pc, scale, op, args, ret, err>>

None == <<>>

Ok(v) == [err |-> "none", val |-> v]

Raise(e) == [err |-> e, val |-> None]

\* a local name for a value: F applied to v
Let(v, F(_)) == F(v)

\* the rest of a function body after a call: an exception of the call
\* propagates, and F is applied to the value it returned otherwise
Then(r, F(_)) == IF r.err # "none" THEN r ELSE F(r.val)

----------------------------------------------------------------------------
(* Python built-ins on str and int, computed character by character.       *)

LowerLetters == <<"a", "b", "c", "d", "e", "f", "g", "h", "i", "j", "k", "l", "m",
                  "n", "o", "p", "q", "r", "s", "t", "u", "v", "w", "x", "y", "z">>

UpperLetters == <<"A", "B", "C", "D", "E", "F", "G", "H", "I", "J", "K", "L", "M",
                  "N", "O", "P", "Q", "R", "S", "T", "U", "V", "W", "X", "Y", "Z">>

Digits == <<"0", "1", "2", "3", "4", "5", "6", "7", "8", "9">>

IndexOf(seq, x) == CHOOSE i \in 1..Len(seq) : seq[i] = x /\ \A j \in 1..(i - 1) : seq[j] # x

Contains(seq, x) == \E i \in 1..Len(seq) : seq[i] = x

IsUpper(c) == Contains(UpperLetters, c)

IsLower(c) == Contains(LowerLetters, c)

IsCased(c) == IsUpper(c) \/ IsLower(c)

lower_char(c) == IF IsUpper(c) THEN LowerLetters[IndexOf(UpperLetters, c)] ELSE c

upper_char(c) == IF IsLower(c) THEN UpperLetters[IndexOf(LowerLetters, c)] ELSE c

\* str.lower()
lower(s) == [i \in 1..Len(s) |-> lower_char(s[i])]

\* str.title(): a cased character is upper-cased when it starts a word (the
\* previous character is not cased) and lower-cased otherwise.
title(s) ==
    [i \in 1..Len(s) |->
        IF i > 1 /\ IsCased(s[i - 1]) THEN lower_char(s[i]) ELSE upper_char(s[i])]

\* str.replace(old, new) for one-character old and new
replace(s, old, new) == [i \in 1..Len(s) |-> IF s[i] = old THEN new ELSE s[i]]

\* int(c) for a one-character string of a digit
int(c) == IndexOf(Digits, c) - 1

\* str(n) for 0 <= n <= 99
str(n) == IF n < 10 THEN <<Digits[n + 1]>> ELSE <<Digits[(n \div 10) + 1], Digits[(n % 10) + 1]>>

RECURSIVE sum(_)
sum(seq) == IF seq = <<>> THEN 0 ELSE Head(seq) + sum(Tail(seq))

\* "".join(strings)
RECURSIVE join(_)
join(strs) == IF strs = <<>> THEN <<>> ELSE Head(strs) \o join(Tail(strs))

----------------------------------------------------------------------------
(* scales.py: the two representations and their conversions.               *)

Octave == 12

KeyboardLen == 13

\* INTERVAL_PATTERN = re.compile(r"^[wh1-9]+$", re.I)
INTERVAL_PATTERN(s) ==
    /\ Len(s) >= 1
    /\ \A i \in 1..Len(s) :
          lower_char(s[i]) \in {"w", "h", "1", "2", "3", "4", "5", "6", "7", "8", "9"}

normalize_intervals(intervals) ==
    IF ~INTERVAL_PATTERN(intervals) THEN Raise("AssertionError")
    ELSE Let(replace(replace(lower(intervals), "w", "2"), "h", "1"), LAMBDA digits :
         Let([i \in 1..Len(digits) |-> int(digits[i])], LAMBDA ints :
             IF sum(ints) # Octave THEN Raise("AssertionError")
             ELSE Ok(join([i \in 1..Len(ints) |-> str(ints[i])]))))

\* a variant of the loop that puts interval zeros, not interval - 1, before
\* each one
RECURSIVE append_keys_wide(_, _)
append_keys_wide(keyboard, ints) ==
    IF ints = <<>> THEN keyboard
    ELSE append_keys_wide(keyboard \o [z \in 1..Head(ints) |-> 0] \o <<1>>, Tail(ints))

\* the loop body of intervals_to_keyboard: interval - 1 zeros, then a one
RECURSIVE append_keys(_, _)
append_keys(keyboard, ints) ==
    IF ints = <<>> THEN keyboard
    ELSE append_keys(keyboard \o [z \in 1..(Head(ints) - 1) |-> 0] \o <<1>>, Tail(ints))

intervals_to_keyboard(intervals) ==
    Then(normalize_intervals(intervals), LAMBDA norm :
    Let(append_keys(<<1>>, [i \in 1..Len(norm) |-> int(norm[i])]), LAMBDA keyboard :
        IF keyboard[1] = 1 /\ keyboard[Len(keyboard)] = 1 /\ Len(keyboard) = KeyboardLen
        THEN Ok(keyboard)
        ELSE Raise("AssertionError")))

\* tuple.index(x), 0-based, for a tuple that holds x
index(seq, x) == IndexOf(seq, x) - 1

\* the while loop of keyboard_to_intervals
RECURSIVE gaps(_, _)
gaps(cdr, acc) ==
    IF cdr = <<>> THEN Ok(acc)
    ELSE IF ~Contains(cdr, 1) THEN Raise("ValueError")
    ELSE Let(index(cdr, 1) + 1, LAMBDA next :
             gaps(SubSeq(cdr, next + 1, Len(cdr)), Append(acc, next)))

keyboard_to_intervals(keyboard) ==
    IF keyboard = <<>> THEN Raise("IndexError")
    ELSE IF keyboard[1] # 1 \/ keyboard[Len(keyboard)] # 1 THEN Raise("AssertionError")
    ELSE Then(gaps(Tail(keyboard), <<>>), LAMBDA acc :
              normalize_intervals(join([i \in 1..Len(acc) |-> str(acc[i])])))

----------------------------------------------------------------------------
(* notes.py                                                                *)

NOTE_NAMES ==
    << <<"C">>, <<"C", "#">>, <<"D">>, <<"D", "#">>, <<"E">>, <<"F">>,
       <<"F", "#">>, <<"G">>, <<"G", "#">>, <<"A">>, <<"A", "#">>, <<"B">> >>

\* sharp name -> flat name, as <<key, value>> pairs
ALTERNATES ==
    << << <<"C", "#">>, <<"D", "b">> >>,
       << <<"D", "#">>, <<"E", "b">> >>,
       << <<"F", "#">>, <<"G", "b">> >>,
       << <<"G", "#">>, <<"A", "b">> >>,
       << <<"A", "#">>, <<"B", "b">> >> >>

GOOFY_NAMES ==
    << << <<"C", "b">>, <<"B">> >>,
       << <<"E", "#">>, <<"F">> >>,
       << <<"F", "b">>, <<"E">> >>,
       << <<"B", "#">>, <<"C">> >> >>

\* dict.get(key) on a sequence of <<key, value>> pairs; None when absent
get(dict, key) ==
    IF \E i \in 1..Len(dict) : dict[i][1] = key
    THEN dict[CHOOSE i \in 1..Len(dict) : dict[i][1] = key][2]
    ELSE None

\* "key in dict" on a sequence of <<key, value>> pairs
has(dict, key) == \E i \in 1..Len(dict) : dict[i][1] = key

\* { flat : sharp for sharp, flat in ALTERNATES.items() }
inverse(dict) == [i \in 1..Len(dict) |-> <<dict[i][2], dict[i][1]>>]

ALIAS_NAMES == inverse(ALTERNATES)

\* x or y, for str values
or(x, y) == IF x # None THEN x ELSE y

normalize_note_name(name) ==
    Let(title(name), LAMBDA titled :
    Let(or(get(GOOFY_NAMES, titled), titled), LAMBDA goofy :
    Let(or(get(ALIAS_NAMES, goofy), goofy), LAMBDA alias :
        IF Contains(NOTE_NAMES, alias) THEN Ok(alias) ELSE Raise("AssertionError"))))

\* A note argument is an int or a str.
IntNote(n) == [type |-> "int", int |-> n, str |-> None]

StrNote(s) == [type |-> "str", int |-> 0, str |-> s]

NoNote == [type |-> "NoneType", int |-> 0, str |-> None]

note_num(name) ==
    IF name.type = "int" THEN Ok(name.int % Octave)
    ELSE Then(normalize_note_name(name.str), LAMBDA norm : Ok(index(NOTE_NAMES, norm)))

note_distance(low, high) ==
    Then(note_num(low), LAMBDA l :
    Then(note_num(high), LAMBDA h :
         Ok((IF h < l THEN h + Octave ELSE h) - l)))

----------------------------------------------------------------------------
(* scales.py: class Scale.  A Scale is a record of its four attributes;    *)
(* keyboard and intervals are the private caches (None until stored or     *)
(* derived), tonic is None or <<pitch class>>.                             *)

DIATONIC_MODE_NAMES ==
    << <<"I", "o", "n", "i", "a", "n">>,
       <<"D", "o", "r", "i", "a", "n">>,
       <<"P", "h", "r", "y", "g", "i", "a", "n">>,
       <<"L", "y", "d", "i", "a", "n">>,
       <<"M", "i", "x", "o", "l", "y", "d", "i", "a", "n">>,
       <<"A", "e", "o", "l", "i", "a", "n">>,
       <<"L", "o", "c", "r", "i", "a", "n">> >>

\* DIATONIC_INTERVAL_PATTERN = re.compile(r"^2*12{2,3}12*$", re.I)
DIATONIC_INTERVAL_PATTERN(s) ==
    \E i, j \in 1..Len(s) :
        /\ i < j
        /\ (j - i - 1) \in {2, 3}
        /\ \A k \in 1..Len(s) : s[k] = (IF k \in {i, j} THEN "1" ELSE "2")

\* the (name, interval) pairs of populate_common_scales
params ==
    << << <<"I", "o", "n", "i", "a", "n">>,
          <<"W", "W", "H", "W", "W", "W", "H">> >>,
       << <<"D", "o", "r", "i", "a", "n">>,
          <<"W", "H", "W", "W", "W", "H", "W">> >>,
       << <<"P", "h", "r", "y", "g", "i", "a", "n">>,
          <<"H", "W", "W", "W", "H", "W", "W">> >>,
       << <<"L", "y", "d", "i", "a", "n">>,
          <<"W", "W", "W", "H", "W", "W", "H">> >>,
       << <<"M", "i", "x", "o", "l", "y", "d", "i", "a", "n">>,
          <<"W", "W", "H", "W", "W", "H", "W">> >>,
       << <<"A", "e", "o", "l", "i", "a", "n">>,
          <<"W", "H", "W", "W", "H", "W", "W">> >>,
       << <<"L", "o", "c", "r", "i", "a", "n">>,
          <<"H", "W", "W", "H", "W", "W", "W">> >>,
       << <<"M", "a", "j", "o", "r">>,
          <<"I", "o", "n", "i", "a", "n">> >>,
       << <<"H", "a", "r", "m", "o", "n", "i", "c", " ", "M", "a", "j", "o", "r", " ", "1">>,
          <<"2", "2", "1", "2", "1", "3", "1">> >>,
       << <<"H", "a", "r", "m", "o", "n", "i", "c", " ", "M", "a", "j", "o", "r", " ", "2">>,
          <<"2", "2", "1", "3", "1", "2", "1">> >>,
       << <<"M", "i", "n", "o", "r">>,
          <<"A", "e", "o", "l", "i", "a", "n">> >>,
       << <<"N", "a", "t", "u", "r", "a", "l", " ", "M", "i", "n", "o", "r">>,
          <<"M", "i", "n", "o", "r">> >>,
       << <<"M", "e", "l", "o", "d", "i", "c", " ", "M", "i", "n", "o", "r">>,
          <<"2", "1", "2", "2", "2", "2", "1">> >>,
       << <<"H", "a", "r", "m", "o", "n", "i", "c", " ", "M", "i", "n", "o", "r">>,
          <<"2", "1", "2", "2", "1", "3", "1">> >>,
       << <<"C", "u", "r", "s", "e", "d", " ", "1">>,
          <<"W", "H", "W", "H", "W", "H", "W", "H">> >>,
       << <<"C", "u", "r", "s", "e", "d", " ", "2">>,
          <<"H", "W", "H", "W", "H", "W", "H", "W">> >> >>

\* first loop: COMMON_SCALES[name.title()] = interval
titled(items) == [i \in 1..Len(items) |-> <<title(items[i][1]), items[i][2]>>]

\* second loop: follow aliases until the value names no entry
RECURSIVE resolve_alias(_, _)
resolve_alias(dict, alias) ==
    IF has(dict, title(alias)) THEN resolve_alias(dict, get(dict, title(alias))) ELSE alias

\* the str branch of Scale.__init__
str_branch(pattern) ==
    Then(normalize_intervals(pattern), LAMBDA norm :
         Ok([keyboard |-> None, intervals |-> norm, tonic |-> None, name |-> None]))

\* third loop: COMMON_SCALES[name] = Scale(interval, name=name); no interval
\* string is the title of an entry, so the str branch is the one taken
populate_common_scales(dict) ==
    [i \in 1..Len(dict) |->
        <<dict[i][1],
          [str_branch(resolve_alias(dict, dict[i][2])).val EXCEPT !.name = dict[i][1]]>>]

COMMON_SCALES == populate_common_scales(titled(params))

Scale_keyboard(self) ==
    IF self.keyboard # None THEN Ok(self.keyboard)
    ELSE IF self.intervals = None THEN Raise("AssertionError")
    ELSE intervals_to_keyboard(self.intervals)

Scale_intervals(self) ==
    IF self.intervals # None THEN Ok(self.intervals)
    ELSE IF self.keyboard = None THEN Raise("AssertionError")
    ELSE keyboard_to_intervals(self.keyboard)

\* the object after its keyboard / intervals property was read (the cache)
cache_keyboard(self, keyboard) ==
    IF keyboard.err = "none" THEN [self EXCEPT !.keyboard = keyboard.val] ELSE self

read_keyboard(self) == cache_keyboard(self, Scale_keyboard(self))

cache_intervals(self, intervals) ==
    IF intervals.err = "none" THEN [self EXCEPT !.intervals = intervals.val] ELSE self

read_intervals(self) == cache_intervals(self, Scale_intervals(self))

\* a variant of has_tonic that takes the tonic's truth value, under which
\* pitch class 0 counts as unset
tonic_is_true(self) == self.tonic # None /\ self.tonic # <<0>>

\* return self.tonic is not None
has_tonic(self) == self.tonic # None

\* the tail of Scale.__init__: name override, then the tonic setter
init_tail(self, tonic, name) ==
    IF tonic.type \in {"int", "str"}
    THEN Then(note_num(tonic), LAMBDA num :
              Ok([self EXCEPT !.name = or(name, self.name), !.tonic = <<num>>]))
    ELSE Ok([self EXCEPT !.name = or(name, self.name)])

\* the Scale branch of Scale.__init__
scale_branch(pattern) ==
    Then(Scale_keyboard(pattern), LAMBDA keyboard :
         Ok([keyboard |-> keyboard, intervals |-> None,
             tonic |-> pattern.tonic, name |-> pattern.name]))

\* Scale(pattern, ...) for a Scale pattern
Scale_from_scale(pattern, tonic, name) ==
    Then(scale_branch(pattern), LAMBDA self : init_tail(self, tonic, name))

\* the str pattern of Scale.__init__: the name of a common scale is replaced
\* by that Scale, any other str is an interval string
str_pattern(common, pattern) ==
    IF has(common, title(pattern))
    THEN scale_branch(get(common, title(pattern)))
    ELSE str_branch(pattern)

\* Scale(pattern, ...) for a str pattern
Scale_from_str(pattern, tonic, name) ==
    Then(str_pattern(COMMON_SCALES, pattern), LAMBDA self : init_tail(self, tonic, name))

\* Scale(pattern, ...) for a tuple pattern of ints
Scale_from_tuple(pattern, tonic, name) ==
    IF Len(pattern) # KeyboardLen THEN Raise("AssertionError")
    ELSE IF \E i \in 1..Len(pattern) : pattern[i] \notin {0, 1} THEN Raise("AssertionError")
    ELSE init_tail([keyboard |-> pattern, intervals |-> None,
                    tonic |-> None, name |-> None], tonic, name)

is_n_tatonic(self, n) ==
    Then(Scale_keyboard(self), LAMBDA keyboard :
         Ok(Cardinality({i \in 1..(Len(keyboard) - 1) : keyboard[i] = 1}) = n))

is_diatonic(self) ==
    Then(Scale_intervals(self), LAMBDA intervals : Ok(DIATONIC_INTERVAL_PATTERN(intervals)))

----------------------------------------------------------------------------
(* transforms.py                                                           *)

\* the ValueError that sharpen, flatten, rotate, spelling and degree_in_scale
\* raise for a scale whose tonic is unset; "ValueError" is any other one
MissingTonic == "ValueError: the tonic is unset"

\* seq[:n] and seq[n:]
take(seq, n) == SubSeq(seq, 1, IF n < Len(seq) THEN n ELSE Len(seq))

drop(seq, n) == SubSeq(seq, n + 1, Len(seq))

\* seq[-1::-1]
reversed(seq) == [i \in 1..Len(seq) |-> seq[Len(seq) + 1 - i]]

\* a variant of the loop that accepts every entry under a diatonic mode name,
\* without comparing the intervals
named_modes(intervals) ==
    SelectSeq(COMMON_SCALES, LAMBDA item : Contains(DIATONIC_MODE_NAMES, item[1]))

\* the entries of COMMON_SCALES that the loop of rename_to_matching_mode
\* accepts for these intervals, in the order of the dict
matching_modes(intervals) ==
    SelectSeq(COMMON_SCALES,
              LAMBDA item : /\ Contains(DIATONIC_MODE_NAMES, item[1])
                            /\ intervals = Scale_intervals(item[2]).val)

\* rename_to_matching_mode for a scale whose intervals property was read
renamed(cached, diatonic, found) ==
    IF diatonic.err # "none" THEN diatonic
    ELSE IF diatonic.val /\ found # <<>> THEN Scale_from_scale(cached, NoNote, found[1][1])
    ELSE Ok(cached)

\* a variant of rename_to_matching_mode that returns the scale under the
\* name it has
keep_name(scale_) == Ok(read_intervals(scale_))

rename_to_matching_mode(scale_) ==
    Let(read_intervals(scale_), LAMBDA cached :
        renamed(cached, is_diatonic(cached),
                IF cached.intervals # None THEN matching_modes(cached.intervals) ELSE <<>>))

\* a variant of the turn that doubles all 13 keys, the octave's two ends both
turned_with_octave(keyboard, shift) == take(drop(keyboard \o keyboard, shift), 13)

\* the keyboard one turn on: (keyboard[:12] + keyboard[:12])[shift:][:13]
turned(keyboard, shift) ==
    take(drop(take(keyboard, 12) \o take(keyboard, 12), shift), 13)

RECURSIVE sharpen(_, _)
sharpen(scale_, turns) ==
    IF ~has_tonic(scale_) THEN Raise(MissingTonic)
    ELSE IF turns <= 0 THEN rename_to_matching_mode(scale_)
    ELSE Then(Scale_keyboard(scale_), LAMBDA keyboard :
         Let(drop(keyboard, 5), LAMBDA check :
             IF ~Contains(check, 1) THEN Raise("ValueError")
             ELSE Let(index(check, 1), LAMBDA nudge :
                  Then(Scale_from_tuple(turned(keyboard, 5 + nudge),
                                        IntNote(scale_.tonic[1] + nudge), scale_.name),
                       LAMBDA next : sharpen(next, turns - 1)))))

RECURSIVE flatten(_, _)
flatten(scale_, turns) ==
    IF ~has_tonic(scale_) THEN Raise(MissingTonic)
    ELSE IF turns <= 0 THEN rename_to_matching_mode(scale_)
    ELSE Then(Scale_keyboard(scale_), LAMBDA keyboard :
         Let(reversed(take(keyboard, 8)), LAMBDA check :
             IF ~Contains(check, 1) THEN Raise("ValueError")
             ELSE Let(index(check, 1), LAMBDA nudge :
                  Then(Scale_from_tuple(turned(keyboard, 7 - nudge),
                                        IntNote(scale_.tonic[1] - nudge), scale_.name),
                       LAMBDA next : flatten(next, turns - 1)))))

rotate(scale_, turns) ==
    IF ~has_tonic(scale_) THEN Raise(MissingTonic)
    ELSE IF turns = 0 THEN Ok(scale_)
    ELSE IF turns < 0 THEN flatten(scale_, -turns)
    ELSE sharpen(scale_, turns)

\* The caller's Scale object after sharpen or flatten: the properties that
\* the call read on it are cached.
after_renamed(cached, diatonic, found) ==
    IF diatonic.err = "none" /\ diatonic.val /\ found # <<>>
    THEN read_keyboard(cached) ELSE cached

after_turns(scale_, turns) ==
    IF ~has_tonic(scale_) THEN scale_
    ELSE IF turns <= 0
    THEN Let(read_intervals(scale_), LAMBDA cached :
             after_renamed(cached, is_diatonic(cached),
                           IF cached.intervals # None THEN matching_modes(cached.intervals)
                           ELSE <<>>))
    ELSE read_keyboard(scale_)

----------------------------------------------------------------------------
(* analysis.py                                                             *)

\* [note % 12 for note, state in enumerate(scale.keyboard[:-1], scale.tonic) if state]
RECURSIVE pitches(_, _)
pitches(keys, note) ==
    IF keys = <<>> THEN <<>>
    ELSE (IF Head(keys) # 0 THEN <<note % Octave>> ELSE <<>>) \o pitches(Tail(keys), note + 1)

scale_notes(scale_) ==
    Then(Scale_keyboard(scale_), LAMBDA keyboard :
         Ok(pitches(take(keyboard, Len(keyboard) - 1), scale_.tonic[1])))

\* one pass of the loop of rewrite(): notes[i] (0-based) after the pass
rewritten(prev, this) ==
    IF note_distance(StrNote(prev), StrNote(this)).val <= 2 /\ has(ALTERNATES, this)
    THEN get(ALTERNATES, this)
    ELSE this

\* the loop of rewrite(), from index i (0-based) on
RECURSIVE rewrite_from(_, _)
rewrite_from(notes, i) ==
    IF i >= Len(notes) THEN notes
    ELSE rewrite_from([notes EXCEPT ![i + 1] =
                           rewritten(notes[((i - 1) % Len(notes)) + 1], notes[i + 1])],
                      i + 1)

rewrite(notes, rewrite_tonic) == rewrite_from(notes, IF rewrite_tonic THEN 0 ELSE 1)

unique_letter_names(notes) == Cardinality({notes[i][1] : i \in 1..Len(notes)})

\* a variant of the return statement that prefers the maximal variant on a tie
as_many_letters(minimal, maximal) ==
    IF unique_letter_names(maximal) >= unique_letter_names(minimal) THEN maximal ELSE minimal

\* the return statement of spelling
more_letters(minimal, maximal) ==
    IF unique_letter_names(maximal) > unique_letter_names(minimal) THEN maximal ELSE minimal

spelling(scale_, adjust_accidentals) ==
    IF ~has_tonic(scale_) THEN Raise(MissingTonic)
    ELSE Then(scale_notes(scale_), LAMBDA nums :
         Let([i \in 1..Len(nums) |-> NOTE_NAMES[nums[i] + 1]], LAMBDA notes :
             IF ~adjust_accidentals THEN Ok(notes)
             ELSE Ok(more_letters(rewrite(notes, FALSE), rewrite(notes, TRUE)))))

\* EInterval: a member is represented by its value; 0 stands for "no interval"
EInterval_values == (1..8) \cup {999}

chords_EInterval_values == (1..13) \cup {999}

\* EQuality(...).value
EQuality_value ==
    << <<"PERFECT", 1>>, <<"MAJOR", 2>>, <<"MINOR", 3>>,
       <<"DIMINISHED", 4>>, <<"AUGMENTED", 5>>, <<"UNKNOWN", 6>> >>

\* INTERVAL_MAP[interval] is the sequence of <<distance, quality>> pairs of the
\* interval with that value, UNISON (1) to OCTAVE (8), in the order of the dict
INTERVAL_MAP ==
    << << <<0, "PERFECT">>, <<1, "AUGMENTED">> >>,
       << <<0, "DIMINISHED">>, <<1, "MINOR">>, <<2, "MAJOR">>, <<3, "AUGMENTED">> >>,
       << <<2, "DIMINISHED">>, <<3, "MINOR">>, <<4, "MAJOR">>, <<5, "AUGMENTED">> >>,
       << <<4, "DIMINISHED">>, <<5, "PERFECT">>, <<6, "AUGMENTED">> >>,
       << <<6, "DIMINISHED">>, <<7, "PERFECT">>, <<8, "AUGMENTED">> >>,
       << <<7, "DIMINISHED">>, <<8, "MAJOR">>, <<9, "MINOR">>, <<10, "AUGMENTED">> >>,
       << <<9, "DIMINISHED">>, <<10, "MAJOR">>, <<11, "MINOR">>, <<12, "AUGMENTED">> >>,
       << <<11, "DIMINISHED">>, <<12, "PERFECT">> >> >>

\* A degree is None or <<1-based position>>.
degree_in_scale(note, scale_) ==
    IF ~has_tonic(scale_) THEN Raise(MissingTonic)
    ELSE Then(scale_notes(scale_), LAMBDA notes :
         Then(note_num(note), LAMBDA num :
              IF Contains(notes, num) THEN Ok(<<index(notes, num) + 1>>) ELSE Ok(None)))

abs(n) == IF n < 0 THEN -n ELSE n

\* the sort key of a guess: int(x[0].value)
sort_key(x) == get(EQuality_value, x[1])

\* a variant that takes the first guess as found, without the sort
first_found(guesses) == guesses[1]

\* guesses.sort(key=...); guesses[0]: the first guess of the least key (the
\* sort is stable)
first_sorted(guesses) ==
    guesses[CHOOSE i \in 1..Len(guesses) :
                \A j \in 1..Len(guesses) :
                    \/ sort_key(guesses[i]) < sort_key(guesses[j])
                    \/ sort_key(guesses[i]) = sort_key(guesses[j]) /\ i <= j]

\* the guesses of interval_quality: a (quality, interval) pair for every
\* interval whose qualities hold the distance
guesses_of(interval_map, dist) ==
    Let(SelectSeq([i \in 1..Len(interval_map) |-> i],
                  LAMBDA i : has(interval_map[i], dist)),
        LAMBDA found : [k \in 1..Len(found) |-> <<get(interval_map[found[k]], dist), found[k]>>])

\* "We don't know the scale degrees so we just have to guess."
guess(guesses) == IF guesses # <<>> THEN first_sorted(guesses) ELSE <<"UNKNOWN", 999>>

\* qualities.get(dist) or EQuality.UNKNOWN
quality_or_unknown(qualities, dist) ==
    IF has(qualities, dist) THEN get(qualities, dist) ELSE "UNKNOWN"

\* the "if scale:" block of interval_quality; Ok(None) when it does not return.
\* scale_ is None or <<a Scale>>.
by_degrees(interval_map, enum_values, low, high, scale_, dist) ==
    IF scale_ = None THEN Ok(None)
    ELSE Then(degree_in_scale(low, scale_[1]), LAMBDA low_degree :
         Then(degree_in_scale(high, scale_[1]), LAMBDA high_degree :
              IF low_degree = None \/ high_degree = None THEN Ok(None)
              ELSE Let(abs(high_degree[1] - low_degree[1]) + 1, LAMBDA interval :
                       IF interval \notin enum_values THEN Raise("ValueError")
                       ELSE IF interval \notin 1..Len(interval_map) THEN Raise("KeyError")
                       ELSE Ok(<<quality_or_unknown(interval_map[interval], dist),
                                 interval>>))))

\* interval_quality after the "if interval:" block
unhinted(interval_map, enum_values, low, high, scale_, dist) ==
    Let(by_degrees(interval_map, enum_values, low, high, scale_, dist), LAMBDA degrees :
        IF degrees.err # "none" \/ degrees.val # None THEN degrees
        ELSE Ok(guess(guesses_of(interval_map, dist))))

\* analysis.interval_quality: interval is 0 (None) or an EInterval
hinted(interval_map, low, high, scale_, interval, dist) ==
    IF interval # 0 /\ interval \notin 1..Len(interval_map) THEN Raise("KeyError")
    ELSE IF interval # 0 /\ has(interval_map[interval], dist)
    THEN Ok(<<get(interval_map[interval], dist), interval>>)
    ELSE unhinted(interval_map, EInterval_values, low, high, scale_, dist)

interval_quality(low, high, scale_, interval) ==
    Then(note_distance(low, high), LAMBDA dist :
         hinted(INTERVAL_MAP, low, high, scale_, interval, dist))

THIRD == 3

FIFTH == 5

\* a variant of the classification that takes the quality of the lower third
lower_third(third1, third2, fifth) ==
    IF third1[2] = THIRD /\ third2[2] = THIRD THEN third1[1] ELSE "UNKNOWN"

\* the classification of triad_quality, from its three interval qualities
classify(third1, third2, fifth) ==
    IF third1[2] = THIRD /\ third2[2] = THIRD
    THEN (IF third1[1] = "MAJOR" /\ third2[1] = "MINOR" THEN "MAJOR"
          ELSE IF third1[1] = "MINOR" /\ third2[1] = "MAJOR" THEN "MINOR"
          ELSE IF third1[1] = "MINOR" /\ third2[1] = "MINOR" THEN "DIMINISHED"
          ELSE IF third1[1] = "MAJOR" /\ third2[1] = "MAJOR" THEN "AUGMENTED"
          ELSE "UNKNOWN")
    ELSE "UNKNOWN"

triad_quality(low, mid, high, scale_) ==
    Then(interval_quality(low, mid, scale_, THIRD), LAMBDA third1 :
    Then(interval_quality(mid, high, scale_, THIRD), LAMBDA third2 :
    Then(interval_quality(low, high, scale_, FIFTH), LAMBDA fifth :
         Ok(classify(third1, third2, fifth)))))

\* the loop of scale_degree_qualities, from index i (0-based) on
RECURSIVE qualities_from(_, _, _)
qualities_from(notes, scale_, i) ==
    IF i >= Len(notes) THEN Ok(<<>>)
    ELSE Then(triad_quality(IntNote(notes[i + 1]),
                            IntNote(notes[((i + 2) % Len(notes)) + 1]),
                            IntNote(notes[((i + 4) % Len(notes)) + 1]),
                            <<scale_>>),
              LAMBDA quality :
                  Then(qualities_from(notes, scale_, i + 1), LAMBDA rest :
                       Ok(<<quality>> \o rest)))

scale_degree_qualities(scale_) ==
    Then(IF has_tonic(scale_) THEN Ok(scale_)
         ELSE Scale_from_scale(scale_, StrNote(<<"C">>), None),
         LAMBDA bound :
             Then(scale_notes(bound), LAMBDA notes : qualities_from(notes, bound, 0)))

----------------------------------------------------------------------------
(* chords.py                                                               *)

\* chords.INTERVAL_MAP: the sixth and the seventh differ from analysis.py
chords_INTERVAL_MAP ==
    << << <<0, "PERFECT">>, <<1, "AUGMENTED">> >>,
       << <<0, "DIMINISHED">>, <<1, "MINOR">>, <<2, "MAJOR">>, <<3, "AUGMENTED">> >>,
       << <<2, "DIMINISHED">>, <<3, "MINOR">>, <<4, "MAJOR">>, <<5, "AUGMENTED">> >>,
       << <<4, "DIMINISHED">>, <<5, "PERFECT">>, <<6, "AUGMENTED">> >>,
       << <<6, "DIMINISHED">>, <<7, "PERFECT">>, <<8, "AUGMENTED">> >>,
       << <<7, "DIMINISHED">>, <<8, "MINOR">>, <<9, "MAJOR">>, <<10, "AUGMENTED">> >>,
       << <<9, "DIMINISHED">>, <<10, "MINOR">>, <<11, "MAJOR">>, <<12, "AUGMENTED">> >>,
       << <<11, "DIMINISHED">>, <<12, "PERFECT">> >> >>

\* a variant of the alias that leaves a compound interval as it is
alias_same(interval) == interval

\* alias = interval if interval < 8 else (interval % 8) + 1
alias_of(interval) == IF interval < 8 THEN interval ELSE (interval % 8) + 1

\* the "if interval:" block of chords.interval_quality and what follows it
chords_hinted(interval_map, low, high, scale_, interval, alias, dist) ==
    IF interval # 0 /\ alias \notin chords_EInterval_values THEN Raise("ValueError")
    ELSE IF interval # 0 /\ alias \notin 1..Len(interval_map) THEN Raise("KeyError")
    ELSE IF interval # 0 /\ has(interval_map[alias], dist)
    THEN (IF interval \in chords_EInterval_values
          THEN Ok(<<get(interval_map[alias], dist), interval>>)
          ELSE Raise("ValueError"))
    ELSE unhinted(interval_map, chords_EInterval_values, low, high, scale_, dist)

\* chords.interval_quality: interval is 0 (None) or an int (an EInterval is
\* replaced by its value first)
chords_interval_quality(low, high, scale_, interval) ==
    Then(note_distance(low, high), LAMBDA dist :
         chords_hinted(chords_INTERVAL_MAP, low, high, scale_, interval,
                       alias_of(interval), dist))

\* Interval.__init__: the object's root, quality and interval
Interval(root, above, interval) ==
    Then(note_num(root), LAMBDA num :
    Then(chords_interval_quality(root, above, None, interval), LAMBDA quality :
         Ok([root |-> num, quality |-> quality[1], interval |-> quality[2]])))

----------------------------------------------------------------------------
(* The inputs of the calls.                                                *)

MaxTurns == 7

\* every 13-tuple of 0/1 flags, and those with both ends set
AllKeyboards == {[i \in 1..KeyboardLen |-> f[i]] : f \in [1..KeyboardLen -> {0, 1}]}

ValidKeyboards == {k \in AllKeyboards : k[1] = 1 /\ k[KeyboardLen] = 1}

\* tuples of a wrong length or with an entry that is no flag
BadTuples ==
    { <<>>,
      <<1, 0, 1, 0, 1, 1, 0, 1, 0, 1, 0, 1>>,
      <<1, 0, 1, 0, 1, 1, 0, 1, 0, 1, 0, 1, 1, 1>>,
      <<1, 0, 1, 0, 1, 1, 0, 1, 0, 1, 0, 2, 1>>,
      <<1, 0, 1, 0, 1, 1, 0, 1, 0, 1, 0, 1, 2>> }

\* the sequences of ints in 1..9 that sum to n
RECURSIVE compositions(_)
compositions(n) ==
    IF n = 0 THEN {<<>>}
    ELSE UNION {{<<d>> \o c : c \in compositions(n - d)} : d \in 1..(IF n < 9 THEN n ELSE 9)}

\* an interval string for a sequence of ints: in digits, in W/H shorthand
\* (upper or lower case) or with the three mixed by position
Styles == {"digits", "upper", "lower", "mixed"}

styled(d, how) ==
    IF d = 2 /\ how = "upper" THEN "W"
    ELSE IF d = 2 /\ how = "lower" THEN "w"
    ELSE IF d = 1 /\ how = "upper" THEN "H"
    ELSE IF d = 1 /\ how = "lower" THEN "h"
    ELSE Digits[d + 1]

render_char(d, style, i) ==
    styled(d, IF style = "mixed" THEN <<"upper", "digits", "lower">>[(i % 3) + 1] ELSE style)

render(c, style) == [i \in 1..Len(c) |-> render_char(c[i], style, i)]

ValidPatterns == {render(c, style) : c \in compositions(Octave), style \in Styles}

\* interval strings that are off by one semitone, empty, or hold a character
\* outside the alphabet
BadPatterns ==
    {render(c, "mixed") : c \in compositions(Octave - 1) \cup compositions(Octave + 1)}
    \cup { <<>>, <<"0", "3", "9">>, <<"2", "2", "1", "2", "2", "2", "1", " ">>,
           <<"W", "W", "H", "W", "W", "W", "X">> }

Patterns == ValidPatterns \cup BadPatterns

\* names of common scales as a caller may write them
names_of(common) ==
    {common[i][1] : i \in 1..Len(common)} \cup {lower(common[i][1]) : i \in 1..Len(common)}

ScaleNames == names_of(COMMON_SCALES)

\* interval strings the documentation and tests use, and two that are invalid
SomePatterns ==
    { <<"W", "W", "H", "W", "H", "W", "H", "H">>, <<"3", "9">>, <<"2", "3", "2", "3", "2">>,
      <<"1", "1", "1", "1", "1", "1", "1", "1", "1", "1", "1", "1">>,
      <<"2", "2", "1", "2", "2", "2", "2">>, <<"W", "W", "H", "W", "W", "W">> }

PitchClasses == 0..(Octave - 1)

IntTonics == {NoNote} \cup {IntNote(n) : n \in PitchClasses}

StrTonics ==
    {NoNote} \cup {StrNote(NOTE_NAMES[i]) : i \in 1..Len(NOTE_NAMES)}
    \cup {StrNote(<<"d", "b">>), StrNote(<<"B", "#">>), StrNote(<<"H">>)}

----------------------------------------------------------------------------
(* The state machine: a caller that makes one call on the library, or      *)
(* constructs a Scale and makes one call on it.  pc is the caller's        *)
(* position, scale its Scale object, op / args the last call, ret / err    *)
(* what the call returned or raised.                                       *)

NoScale == [keyboard |-> None, intervals |-> None, tonic |-> None, name |-> None]

Init ==
    /\ pc = "start"
    /\ scale = NoScale
    /\ op = "none"
    /\ args = None
    /\ ret = None
    /\ err = "none"

\* the end of a call of a function of the library: r is its outcome, self the
\* caller's Scale object after it
Call(name, a, r, self) ==
    /\ pc' = "done"
    /\ op' = name
    /\ args' = a
    /\ ret' = r.val
    /\ err' = r.err
    /\ scale' = self

\* the end of a call of the constructor: the caller holds the object unless
\* the constructor raised
New(a, r) ==
    /\ pc' = IF r.err = "none" THEN "ready" ELSE "done"
    /\ op' = "Scale"
    /\ args' = a
    /\ ret' = None
    /\ err' = r.err
    /\ scale' = IF r.err = "none" THEN r.val ELSE scale

CallNormalizeIntervals(inputs) ==
    /\ pc = "start"
    /\ \E p \in inputs : Call("normalize_intervals", p, normalize_intervals(p), scale)

CallIntervalsToKeyboard(inputs) ==
    /\ pc = "start"
    /\ \E p \in inputs : Call("intervals_to_keyboard", p, intervals_to_keyboard(p), scale)

CallKeyboardToIntervals(inputs) ==
    /\ pc = "start"
    /\ \E k \in inputs : Call("keyboard_to_intervals", k, keyboard_to_intervals(k), scale)

NewFromStr(inputs, tonics) ==
    /\ pc = "start"
    /\ \E p \in inputs, t \in tonics :
           New([type |-> "str", pattern |-> p, tonic |-> t], Scale_from_str(p, t, None))

NewFromTuple(inputs, tonics) ==
    /\ pc = "start"
    /\ \E k \in inputs, t \in tonics :
           New([type |-> "tuple", pattern |-> k, tonic |-> t], Scale_from_tuple(k, t, None))

ReadKeyboard ==
    /\ pc = "ready"
    /\ Call("keyboard", None, Scale_keyboard(scale), read_keyboard(scale))

ReadIntervals ==
    /\ pc = "ready"
    /\ Call("intervals", None, Scale_intervals(scale), read_intervals(scale))

Sharpen ==
    /\ pc = "ready"
    /\ \E n \in 0..MaxTurns :
           Call("sharpen", [turns |-> n], sharpen(scale, n), after_turns(scale, n))

Flatten ==
    /\ pc = "ready"
    /\ \E n \in 0..MaxTurns :
           Call("flatten", [turns |-> n], flatten(scale, n), after_turns(scale, n))

Rotate ==
    /\ pc = "ready"
    /\ \E n \in (-MaxTurns)..MaxTurns :
           Call("rotate", [turns |-> n], rotate(scale, n),
                IF n = 0 THEN scale ELSE after_turns(scale, abs(n)))

Spelling ==
    /\ pc = "ready"
    /\ \E adjust \in BOOLEAN :
           Call("spelling", [adjust_accidentals |-> adjust], spelling(scale, adjust),
                IF has_tonic(scale) THEN read_keyboard(scale) ELSE scale)

DegreeInScale ==
    /\ pc = "ready"
    /\ \E n \in PitchClasses :
           Call("degree_in_scale", [note |-> n], degree_in_scale(IntNote(n), scale),
                IF has_tonic(scale) THEN read_keyboard(scale) ELSE scale)

ScaleDegreeQualities ==
    /\ pc = "ready"
    /\ Call("scale_degree_qualities", None, scale_degree_qualities(scale),
            read_keyboard(scale))

CallIntervalQuality ==
    /\ pc = "start"
    /\ \E low \in PitchClasses, high \in PitchClasses, interval \in {0} \cup EInterval_values :
           Call("interval_quality", [low |-> low, high |-> high, interval |-> interval],
                interval_quality(IntNote(low), IntNote(high), None, interval), scale)

CallChordsIntervalQuality ==
    /\ pc = "start"
    /\ \E low \in PitchClasses, high \in PitchClasses,
          interval \in {0} \cup chords_EInterval_values :
           Call("chords.interval_quality",
                [low |-> low, high |-> high, interval |-> interval],
                chords_interval_quality(IntNote(low), IntNote(high), None, interval), scale)

NewInterval ==
    /\ pc = "start"
    /\ \E root \in PitchClasses, above \in PitchClasses, interval \in 0..14 :
           Call("Interval", [root |-> root, above |-> above, interval |-> interval],
                Interval(StrNote(NOTE_NAMES[root + 1]), StrNote(NOTE_NAMES[above + 1]),
                         interval),
                scale)

\* the conversions, the constructor and the two properties
NextScales ==
    \/ CallNormalizeIntervals(Patterns)
    \/ CallIntervalsToKeyboard(Patterns)
    \/ CallKeyboardToIntervals(AllKeyboards)
    \/ NewFromStr(ScaleNames \cup SomePatterns, StrTonics)
    \/ NewFromTuple(AllKeyboards \cup BadTuples, {NoNote})
    \/ ReadKeyboard
    \/ ReadIntervals

SpecScales == Init /\ [][NextScales]_vars

\* the interval classifiers of analysis.py and chords.py
NextIntervals ==
    \/ CallIntervalQuality
    \/ CallChordsIntervalQuality
    \/ NewInterval

SpecIntervals == Init /\ [][NextIntervals]_vars

\* the spelling of every scale
NextSpelling ==
    \/ NewFromStr(SomePatterns, StrTonics)
    \/ NewFromTuple(ValidKeyboards, IntTonics)
    \/ Spelling

SpecSpelling == Init /\ [][NextSpelling]_vars

\* the transforms and the analysis of the common scales
Next ==
    \/ NewFromStr(ScaleNames \cup SomePatterns, StrTonics)
    \/ Sharpen
    \/ Flatten
    \/ Rotate
    \/ Spelling
    \/ DegreeInScale
    \/ ScaleDegreeQualities

Spec == Init /\ [][Next]_vars

----------------------------------------------------------------------------
(* The properties.                                                         *)

\* the caller has made the call name and holds its outcome
Done(name) == pc = "done" /\ op = name

\* the semitones a character of an interval string stands for
semitones(c) ==
    IF c \in {"W", "w"} THEN 2
    ELSE IF c \in {"H", "h"} THEN 1
    ELSE IndexOf(Digits, c) - 1

\* 0 and the running sums of a sequence of ints
prefix_sums(ints) == {sum(take(ints, n)) : n \in 0..Len(ints)}

\* the 0-based positions a keyboard has set
active(keyboard) == {i \in 0..(Len(keyboard) - 1) : keyboard[i + 1] = 1}

Ionian_keyboard == <<1, 0, 1, 0, 1, 1, 0, 1, 0, 1, 0, 1, 1>>

\* C1: for every keyboard K of 13 flags with K[0] = K[12] = 1,
\* keyboard_to_intervals(K) succeeds and intervals_to_keyboard of what it
\* returns is K again.
C1_KeyboardRoundTrip ==
    (Done("keyboard_to_intervals") /\ args \in ValidKeyboards)
        => /\ err = "none"
           /\ intervals_to_keyboard(ret) = Ok(args)

\* C2: for every valid interval pattern P, intervals_to_keyboard(P) is a
\* keyboard of 13 flags whose set positions are 0 and the running sums of the
\* intervals, "WWHWWWH" gives the Ionian keyboard, and keyboard_to_intervals
\* of the keyboard is normalize_intervals(P).
C2_PatternRoundTrip ==
    (Done("intervals_to_keyboard") /\ args \in ValidPatterns)
        => /\ err = "none"
           /\ Len(ret) = KeyboardLen
           /\ \A i \in 1..Len(ret) : ret[i] \in {0, 1}
           /\ active(ret) = prefix_sums([i \in 1..Len(args) |-> semitones(args[i])])
           /\ normalize_intervals(args).err = "none"
           /\ keyboard_to_intervals(ret) = normalize_intervals(args)
           /\ (args = <<"W", "W", "H", "W", "W", "W", "H">> => ret = Ionian_keyboard)

\* intervals_to_keyboard("WWHWWWH") has returned the Ionian keyboard
C2_Witness ==
    /\ Done("intervals_to_keyboard")
    /\ args = <<"W", "W", "H", "W", "W", "W", "H">>
    /\ ret = Ionian_keyboard
    /\ keyboard_to_intervals(ret) = Ok(<<"2", "2", "1", "2", "2", "2", "1">>)

\* C3: Scale(tuple) raises unless the tuple has 13 entries, each 0 or 1, the
\* first and the last 1; so every Scale constructed from a tuple has
\* keyboard[0] = keyboard[12] = 1.
C3_TupleValidated ==
    (op = "Scale" /\ args.type = "tuple" /\ err = "none")
        => /\ Len(args.pattern) = KeyboardLen
           /\ \A i \in 1..Len(args.pattern) : args.pattern[i] \in {0, 1}
           /\ args.pattern[1] = 1 /\ args.pattern[KeyboardLen] = 1
           /\ scale.keyboard[1] = 1 /\ scale.keyboard[KeyboardLen] = 1

\* the diatonic modes in the order one sharpen turn steps through them, and
\* the intervals of each
ModeOrder ==
    << <<"L", "o", "c", "r", "i", "a", "n">>,
       <<"P", "h", "r", "y", "g", "i", "a", "n">>,
       <<"A", "e", "o", "l", "i", "a", "n">>,
       <<"D", "o", "r", "i", "a", "n">>,
       <<"M", "i", "x", "o", "l", "y", "d", "i", "a", "n">>,
       <<"I", "o", "n", "i", "a", "n">>,
       <<"L", "y", "d", "i", "a", "n">> >>

ModeIntervals ==
    << <<1, 2, 2, 1, 2, 2, 2>>,
       <<1, 2, 2, 2, 1, 2, 2>>,
       <<2, 1, 2, 2, 1, 2, 2>>,
       <<2, 1, 2, 2, 2, 1, 2>>,
       <<2, 2, 1, 2, 2, 1, 2>>,
       <<2, 2, 1, 2, 2, 2, 1>>,
       <<2, 2, 2, 1, 2, 2, 1>> >>

digits_of(ints) == [i \in 1..Len(ints) |-> Digits[ints[i] + 1]]

\* s has the intervals of the i-th mode of ModeOrder
HasModeIntervals(s, i) == Scale_intervals(s) = Ok(digits_of(ModeIntervals[i]))

\* s has a tonic and the intervals of a diatonic mode
IsModeWithTonic(s) == s.tonic # None /\ \E i \in 1..Len(ModeOrder) : HasModeIntervals(s, i)

\* s has a tonic, and the name and the intervals of the i-th mode of ModeOrder
IsNamedMode(s, i) == s.tonic # None /\ s.name = ModeOrder[i] /\ HasModeIntervals(s, i)

\* s is the i-th mode of ModeOrder on pitch class t mod 12, by name, by
\* intervals and by keyboard
IsModeOn(s, i, t) ==
    /\ s.name = ModeOrder[i]
    /\ s.tonic = <<t % Octave>>
    /\ HasModeIntervals(s, i)
    /\ Scale_keyboard(s).err = "none"
    /\ Len(Scale_keyboard(s).val) = KeyboardLen
    /\ active(Scale_keyboard(s).val) = prefix_sums(ModeIntervals[i])

\* flattening sharp by seven turns gives the keyboard, intervals and tonic of orig
FlattensBackTo(sharp, orig) ==
    /\ flatten(sharp, 7).err = "none"
    /\ Scale_keyboard(flatten(sharp, 7).val) = Scale_keyboard(orig)
    /\ Scale_intervals(flatten(sharp, 7).val) = Scale_intervals(orig)
    /\ flatten(sharp, 7).val.tonic = orig.tonic

\* sharpen(s, 7) on a diatonic mode with tonic t has returned a scale of the
\* same intervals whose tonic is t + up mod 12 and which flatten(_, 7) takes back
SharpenedSeven(up) ==
    (Done("sharpen") /\ args.turns = 7 /\ IsModeWithTonic(scale))
        => /\ err = "none"
           /\ Scale_intervals(ret) = Scale_intervals(scale)
           /\ ret.tonic = <<(scale.tonic[1] + up) % Octave>>
           /\ FlattensBackTo(ret, scale)

\* C4 (as stated): sharpening a diatonic mode with tonic t by 7 turns returns
\* the same interval pattern on tonic (t + 7) mod 12, and flattening that by 7
\* turns returns the original keyboard, intervals and tonic.
C4_SharpenSevenIsAFifth == SharpenedSeven(7)

\* C4 (amended): sharpening a diatonic mode with tonic t by 7 turns returns
\* the same interval pattern on tonic (t + 1) mod 12, one semitone up, and
\* flattening that by 7 turns returns the original keyboard, intervals and
\* tonic.
C4_SharpenSevenIsASemitone == SharpenedSeven(1)

\* sharpen(Dorian on D#, 7) has returned Dorian on E
C4_Witness ==
    /\ Done("sharpen") /\ args.turns = 7
    /\ IsNamedMode(scale, 4) /\ scale.tonic = <<3>>
    /\ err = "none" /\ IsModeOn(ret, 4, 4)
    /\ FlattensBackTo(ret, scale)

\* C5: one sharpen turn takes a diatonic mode on t to the next mode of the
\* order Locrian, Phrygian, Aeolian, Dorian, Mixolydian, Ionian, Lydian on t,
\* under that mode's name, and Lydian to Locrian on t + 1; one flatten turn is
\* the step back; rotate(Locrian on C, 6) is Lydian on C, rotate(_, 7) Locrian
\* on C#, rotate(_, -7) Locrian on B.
C5_ModeSteps ==
    \A i \in 1..Len(ModeOrder) :
        /\ (Done("sharpen") /\ args.turns = 1 /\ IsNamedMode(scale, i))
               => /\ err = "none"
                  /\ IF i < Len(ModeOrder) THEN IsModeOn(ret, i + 1, scale.tonic[1])
                     ELSE IsModeOn(ret, 1, scale.tonic[1] + 1)
        /\ (Done("flatten") /\ args.turns = 1 /\ IsNamedMode(scale, i))
               => /\ err = "none"
                  /\ IF i > 1 THEN IsModeOn(ret, i - 1, scale.tonic[1])
                     ELSE IsModeOn(ret, Len(ModeOrder), scale.tonic[1] - 1)
        /\ (Done("rotate") /\ i = 1 /\ IsNamedMode(scale, i) /\ scale.tonic = <<0>>)
               => /\ args.turns = 6 => err = "none" /\ IsModeOn(ret, 7, 0)
                  /\ args.turns = 7 => err = "none" /\ IsModeOn(ret, 1, 1)
                  /\ args.turns = -7 => err = "none" /\ IsModeOn(ret, 1, 11)

\* rotate(Scale("Locrian", tonic="C"), 6) has returned Lydian on C
C5_Witness ==
    /\ Done("rotate") /\ args.turns = 6
    /\ IsNamedMode(scale, 1) /\ scale.tonic = <<0>>
    /\ err = "none" /\ IsModeOn(ret, 7, 0)

\* C6: scale_degree_qualities of the Ionian scale is Major, Minor, Minor,
\* Major, Major, Minor, Diminished on every tonic and with no tonic bound.
C6_IonianQualities ==
    (Done("scale_degree_qualities") /\ HasModeIntervals(scale, 6))
        => /\ err = "none"
           /\ ret = <<"MAJOR", "MINOR", "MINOR", "MAJOR", "MAJOR", "MINOR", "DIMINISHED">>

\* scale_degree_qualities(Scale("Ionian")), no tonic bound, has returned
C6_Witness ==
    /\ Done("scale_degree_qualities")
    /\ HasModeIntervals(scale, 6) /\ scale.tonic = None
    /\ ret[1] = "MAJOR" /\ ret[2] = "MINOR" /\ ret[7] = "DIMINISHED"

\* the order of the qualities as the specification states it, and as EQuality numbers them
StatedOrder == <<"DIMINISHED", "AUGMENTED", "MAJOR", "MINOR", "PERFECT", "UNKNOWN">>

EQualityOrder == <<"PERFECT", "MAJOR", "MINOR", "DIMINISHED", "AUGMENTED", "UNKNOWN">>

rank(order, quality) == IndexOf(order, quality)

\* the (quality, interval) entries of a table whose distance is d
entries(interval_map, d) ==
    UNION {{<<interval_map[i][k][2], i>> :
               k \in {k \in 1..Len(interval_map[i]) : interval_map[i][k][1] = d}} :
           i \in 1..Len(interval_map)}

\* the table of the module whose interval_quality the caller has called
table_of(name) == IF name = "interval_quality" THEN INTERVAL_MAP ELSE chords_INTERVAL_MAP

\* interval_quality(low, high), of either module, has returned an entry of
\* its table for the distance from low to high that no other entry for the
\* distance precedes in the order
LowestMatch(order) ==
    ((Done("interval_quality") \/ Done("chords.interval_quality")) /\ args.interval = 0)
        => /\ err = "none"
           /\ ret \in entries(table_of(op), (args.high - args.low) % Octave)
           /\ \A m \in entries(table_of(op), (args.high - args.low) % Octave) :
                  rank(order, ret[1]) <= rank(order, m[1])

\* C7 (as stated): with no interval hint and no scale, interval_quality
\* returns the table entry for the distance whose quality is lowest in the
\* order Diminished < Augmented < Major < Minor < Perfect < Unknown.
C7_LowestInStatedOrder == LowestMatch(StatedOrder)

\* C7 (amended): with no interval hint and no scale, interval_quality returns
\* the table entry for the distance whose quality is lowest in the order of
\* the EQuality values, Perfect < Major < Minor < Diminished < Augmented <
\* Unknown; for distance 0 that is the Perfect unison.
C7_LowestInEQualityOrder ==
    /\ LowestMatch(EQualityOrder)
    /\ \A q \in 1..Len(EQualityOrder) : sort_key(<<EQualityOrder[q]>>) = q
    /\ ((Done("interval_quality") \/ Done("chords.interval_quality"))
            /\ args.interval = 0 /\ args.high = args.low)
           => ret = <<"PERFECT", 1>>

\* interval_quality("C", "C") has returned the Perfect unison, not the
\* Diminished second that the table also holds for distance 0
C7_Witness ==
    /\ Done("interval_quality") /\ args.interval = 0
    /\ args.low = 0 /\ args.high = 0
    /\ ret = <<"PERFECT", 1>>
    /\ <<"DIMINISHED", 2>> \in entries(INTERVAL_MAP, 0)

\* the semitones from the tonic of a major scale up to its degrees 1..8
MajorDegrees == <<0, 2, 4, 5, 7, 9, 11, 12>>

PerfectDegrees == {1, 4, 5, 8}

\* above is the note on degree k of the major scale on root
OnMajorDegree(root, above, k) == above = (root + MajorDegrees[k]) % Octave

\* C8: in chords.py, for the note on degree k of the major scale on r,
\* Interval(r, note, k) has interval k and quality Perfect for k in 1, 4, 5, 8
\* and Major for k in 2, 3, 6, 7; for a compound hint k in 9..13 the quality
\* is that of the hint k - 7 on the same two notes, and the interval reported
\* is k where the hint k - 7 reports k - 7.
C8_ChordIntervals ==
    Done("Interval") =>
        /\ (args.interval \in 1..8 /\ OnMajorDegree(args.root, args.above, args.interval))
               => /\ err = "none"
                  /\ ret.root = args.root
                  /\ ret.interval = args.interval
                  /\ ret.quality = IF args.interval \in PerfectDegrees THEN "PERFECT"
                                   ELSE "MAJOR"
        /\ args.interval \in 9..13
               => /\ err = "none"
                  /\ Interval(IntNote(args.root), IntNote(args.above), args.interval - 7).err
                         = "none"
                  /\ ret.quality = Interval(IntNote(args.root), IntNote(args.above),
                                            args.interval - 7).val.quality
                  /\ Interval(IntNote(args.root), IntNote(args.above),
                              args.interval - 7).val.interval = args.interval - 7
                         => ret.interval = args.interval
        /\ (args.interval \in 9..13
                /\ OnMajorDegree(args.root, args.above, args.interval - 7))
               => /\ ret.interval = args.interval
                  /\ ret.quality = IF args.interval - 7 \in PerfectDegrees THEN "PERFECT"
                                   ELSE "MAJOR"

\* Interval("D", "B", 13) has returned a Major thirteenth
C8_Witness ==
    /\ Done("Interval")
    /\ args.root = 2 /\ args.above = 11 /\ args.interval = 13
    /\ ret = [root |-> 2, quality |-> "MAJOR", interval |-> 13]

\* the letters that a list of note names uses
letters(notes) == {Head(notes[i]) : i \in 1..Len(notes)}

\* the sharp names of the notes of a scale, and the two variants of its
\* spelling: flats put in from the second note on, or from the tonic on
sharp_names(s) == [i \in 1..Len(scale_notes(s).val) |-> NOTE_NAMES[scale_notes(s).val[i] + 1]]

minimal_variant(s) == rewrite(sharp_names(s), FALSE)

maximal_variant(s) == rewrite(sharp_names(s), TRUE)

\* Scale("WWHWHWHH", tonic="C#")
IsOctatonicOnCSharp(s) ==
    /\ s.tonic = <<1>>
    /\ Scale_intervals(s) = Ok(<<"2", "2", "1", "2", "1", "2", "1", "1">>)

\* C9: on a scale with a tonic, spelling(scale, adjust_accidentals=True)
\* returns the maximal variant when it uses strictly more letters than the
\* minimal variant and the minimal variant otherwise; on
\* Scale("WWHWHWHH", tonic="C#") that is Db, Eb, F, Gb, Ab, A, B, C.
C9_SpellingPicksMoreLetters ==
    (Done("spelling") /\ args.adjust_accidentals /\ scale.tonic # None)
        => /\ err = "none"
           /\ Cardinality(letters(maximal_variant(scale)))
                  > Cardinality(letters(minimal_variant(scale)))
                  => ret = maximal_variant(scale)
           /\ Cardinality(letters(maximal_variant(scale)))
                  <= Cardinality(letters(minimal_variant(scale)))
                  => ret = minimal_variant(scale)
           /\ IsOctatonicOnCSharp(scale)
                  => /\ ret = << <<"D", "b">>, <<"E", "b">>, <<"F">>, <<"G", "b">>,
                                 <<"A", "b">>, <<"A">>, <<"B">>, <<"C">> >>
                     /\ ret = maximal_variant(scale)
                     /\ ret # minimal_variant(scale)

\* spelling(Scale("WWHWHWHH", tonic="C#")) has returned the maximal variant,
\* which has seven letters where the minimal one has six
C9_Witness ==
    /\ Done("spelling") /\ args.adjust_accidentals
    /\ IsOctatonicOnCSharp(scale)
    /\ ret[1] = <<"D", "b">>
    /\ Cardinality(letters(ret)) = 7
    /\ Cardinality(letters(minimal_variant(scale))) = 6

\* the calls that need the tonic
NeedTonic == {"rotate", "sharpen", "flatten", "spelling", "degree_in_scale"}

\* C10: on a Scale with no tonic, rotate, sharpen and flatten (of any number
\* of turns, 0 too), spelling and degree_in_scale raise the missing-tonic
\* error and return nothing; on a Scale whose tonic is pitch class 0 they do
\* not raise it.
C10_MissingTonic ==
    (pc = "done" /\ op \in NeedTonic)
        => /\ scale.tonic = None => err = MissingTonic /\ ret = None
           /\ scale.tonic = <<0>> => err # MissingTonic

\* rotate(scale, 0) on a Scale with no tonic has raised the missing-tonic error
C10_Witness ==
    /\ Done("rotate") /\ args.turns = 0
    /\ scale.tonic = None
    /\ err = MissingTonic

\* the Scale invariant: 13 keys, both ends set, intervals that sum to an octave
SatisfiesInvariant(s) ==
    /\ Scale_keyboard(s).err = "none"
    /\ Len(Scale_keyboard(s).val) = KeyboardLen
    /\ Scale_keyboard(s).val[1] = 1
    /\ Scale_keyboard(s).val[KeyboardLen] = 1
    /\ Scale_intervals(s).err = "none"
    /\ sum([i \in 1..Len(Scale_intervals(s).val) |->
               semitones(Scale_intervals(s).val[i])]) = Octave

\* C11: for every Scale that satisfies the invariant and has a tonic, and
\* every n >= 1, sharpen(scale, n) and flatten(scale, n) return a Scale that
\* satisfies the invariant and has a tonic in 0..11, also where the scale has
\* no key set at positions 5 through 11 (as "39").
C11_TurnsKeepInvariant ==
    ((Done("sharpen") \/ Done("flatten"))
         /\ args.turns >= 1 /\ scale.tonic # None /\ SatisfiesInvariant(scale))
        => /\ err = "none"
           /\ SatisfiesInvariant(ret)
           /\ ret.tonic # None
           /\ ret.tonic[1] \in PitchClasses

\* the scale that scale_degree_qualities works on: s, on C if s has no tonic
OnSomeTonic(s) == IF s.tonic # None THEN s ELSE [s EXCEPT !.tonic = <<0>>]

\* the k-th note (0-based, wrapping) of the scale that s is on some tonic
NoteOf(s, k) ==
    IntNote(scale_notes(OnSomeTonic(s)).val[(k % Len(scale_notes(OnSomeTonic(s)).val)) + 1])

\* the third from the k-th note of s to the note two degrees up
ThirdFrom(s, k) == interval_quality(NoteOf(s, k), NoteOf(s, k + 2), <<OnSomeTonic(s)>>, THIRD)

\* the quality of the triad on degree i (1-based) of s, by its two stacked
\* thirds alone
ByThirdsAlone(s, i) ==
    IF ThirdFrom(s, i - 1).err # "none" \/ ThirdFrom(s, i + 1).err # "none" THEN "raised"
    ELSE IF ThirdFrom(s, i - 1).val[2] # 3 \/ ThirdFrom(s, i + 1).val[2] # 3 THEN "UNKNOWN"
    ELSE IF ThirdFrom(s, i - 1).val[1] = "MAJOR" /\ ThirdFrom(s, i + 1).val[1] = "MINOR"
    THEN "MAJOR"
    ELSE IF ThirdFrom(s, i - 1).val[1] = "MINOR" /\ ThirdFrom(s, i + 1).val[1] = "MAJOR"
    THEN "MINOR"
    ELSE IF ThirdFrom(s, i - 1).val[1] = "MINOR" /\ ThirdFrom(s, i + 1).val[1] = "MINOR"
    THEN "DIMINISHED"
    ELSE IF ThirdFrom(s, i - 1).val[1] = "MAJOR" /\ ThirdFrom(s, i + 1).val[1] = "MAJOR"
    THEN "AUGMENTED"
    ELSE "UNKNOWN"

TriadQualities == {"MAJOR", "MINOR", "DIMINISHED", "AUGMENTED", "UNKNOWN"}

\* C12: for every valid scale of any number of degrees, the chromatic scale
\* "111111111111" too, scale_degree_qualities returns, without raising, one
\* quality per degree, each Major, Minor, Diminished, Augmented or Unknown
\* and each determined by the two stacked thirds alone.
C12_QualityPerDegree ==
    (Done("scale_degree_qualities") /\ SatisfiesInvariant(scale))
        => /\ err = "none"
           /\ Len(ret) = Cardinality(active(take(Scale_keyboard(scale).val, Octave)))
           /\ \A i \in 1..Len(ret) :
                  /\ ret[i] \in TriadQualities
                  /\ ret[i] = ByThirdsAlone(scale, i)

\* the pitch classes that a list of note names names, in order
pitch_classes(notes) == [i \in 1..Len(notes) |-> note_num(StrNote(notes[i])).val]

\* C13: on a scale with a tonic, spelling(scale, adjust_accidentals=True)
\* never uses fewer letters than spelling(scale, adjust_accidentals=False),
\* and names the same pitch classes in the same order (as for Ionian on G).
C13_NeverFewerLetters ==
    (Done("spelling") /\ args.adjust_accidentals /\ scale.tonic # None)
        => /\ err = "none"
           /\ spelling(scale, FALSE).err = "none"
           /\ pitch_classes(ret) = pitch_classes(spelling(scale, FALSE).val)
           /\ Cardinality(letters(ret)) >= Cardinality(letters(spelling(scale, FALSE).val))

\* the names of the entries of COMMON_SCALES that have these intervals
entry_names(intervals) ==
    {COMMON_SCALES[i][1] :
        i \in {i \in 1..Len(COMMON_SCALES) :
                  Scale_intervals(COMMON_SCALES[i][2]) = Ok(intervals)}}

\* the names of the diatonic modes that have these intervals
mode_names(intervals) ==
    {ModeOrder[i] : i \in {i \in 1..Len(ModeOrder) : digits_of(ModeIntervals[i]) = intervals}}

\* sharpen or flatten of a scale with a tonic has returned a scale
Turned == (Done("sharpen") \/ Done("flatten")) /\ scale.tonic # None /\ err = "none"

Cursed_1 == <<"C", "u", "r", "s", "e", "d", " ", "1">>

Cursed_2 == <<"C", "u", "r", "s", "e", "d", " ", "2">>

\* C14 (as stated): the result of sharpen(scale, n) or flatten(scale, n),
\* n >= 0, has the name of an entry of the table of common scales whose
\* intervals are the result's, where there is one, the entries that are no
\* diatonic modes too, and the name of the input scale otherwise.
C14_NamedAfterAnyEntry ==
    Turned => IF entry_names(Scale_intervals(ret).val) # {}
              THEN ret.name \in entry_names(Scale_intervals(ret).val)
              ELSE ret.name = scale.name

\* C14 (amended): the result of sharpen(scale, n) or flatten(scale, n),
\* n >= 0, has the name of the diatonic mode whose intervals are the
\* result's, where the result is one of the seven diatonic modes, and the
\* name of the input scale otherwise, also where another entry of the table
\* has the result's intervals.
C14_NamedAfterDiatonicMode ==
    Turned => IF mode_names(Scale_intervals(ret).val) # {}
              THEN ret.name \in mode_names(Scale_intervals(ret).val)
              ELSE ret.name = scale.name

\* sharpen(Scale("Cursed 1", tonic), 1) has returned the intervals of
\* "Cursed 2" under the name "Cursed 1"
C14_Witness ==
    /\ Done("sharpen") /\ args.turns = 1 /\ err = "none"
    /\ scale.name = Cursed_1 /\ scale.tonic # None
    /\ Scale_intervals(scale) = Ok(<<"2", "1", "2", "1", "2", "1", "2", "1">>)
    /\ Scale_intervals(ret) = Ok(<<"1", "2", "1", "2", "1", "2", "1", "2">>)
    /\ entry_names(Scale_intervals(ret).val) = {Cursed_2}
    /\ ret.name = Cursed_1

====
